---- MODULE Spec2Model ----
(***************************************************************************)
(* Model of src/src/eager/op.rs: the eager operation descriptor `Op` (a    *)
(* wrapper around a native TFE_Op handle), its mutators and getters, and   *)
(* the test scaffolding raw_ops::Add built on top of it.                   *)
(*                                                                         *)
(* Strings are sequences of bytes, so that an embedded NUL is something    *)
(* CString::new can find.  A native status is its code; a Result is        *)
(* <<"Ok", value>> or <<"Err", <<code, origin>>>>.  What the native        *)
(* library answers (the status of a call, the pointer it returns) is the   *)
(* environment's choice and is drawn with \E in the actions.               *)
(***************************************************************************)
EXTENDS Integers, Sequences, FiniteSets, TLC

VARIABLES
    pc,        \* where the caller stands: in Add::call, or holding an Op
    ctx,       \* the Context in use: the set of op names its registry knows
    selfT,     \* Add::call: the builder's T field, <<"None">> or <<"Some", dt>>
    hx, hy,    \* Add::call: the two input handles
    held,      \* TRUE while a Rust `Op` value is in scope (owns `natOp`)
    natOp,     \* the native TFE_Op the descriptor's `inner` points to
    created,   \* number of descriptors TFE_NewOp has handed out
    deleted,   \* number of TFE_DeleteOp calls
    trace,     \* Add::call: the native calls made so far, in order
    execStatus,\* Add::call: status written by TFE_Execute, "unset" before
    res,       \* Add::call: res[0], the native output buffer
    ret,       \* Add::call: the value returned to the caller
    last,      \* the last method run on a descriptor held directly, and its outcome
    input      \* the argument drawn for a marshalling run (SpecShape, SpecList)

vars == <<pc, ctx, selfT, hx, hy, held, natOp, created, deleted, trace,
          execStatus, res, ret, last, input>>

(***************************************************************************)
(* Bounds of the model.                                                    *)
(***************************************************************************)
MaxCalls == 1      \* descriptors created in one behaviour
MaxInputs == 1     \* inputs attached to one generic descriptor
MaxRank == 2       \* rank of the shapes drawn
MaxDim == 1        \* known dimension sizes drawn: 0..MaxDim
MaxLen == 2        \* length of the small lists drawn

(***************************************************************************)
(* Strings, statuses, results.                                             *)
(***************************************************************************)
StrAdd == <<65, 100, 100>>          \* "Add"
StrT == <<84>>                      \* "T"
StrN == <<78>>                      \* "N"
StrNope == <<78, 111>>              \* "No": an op name no registry knows
StrNul == <<97, 0, 98>>             \* "a\0b"
StrCpu == <<67, 80, 85>>            \* "CPU"
StrCpuNul == <<67, 0>>              \* "C\0"

StatusCodes == {"OK", "INVALID_ARGUMENT", "NOT_FOUND"}
FailCodes == StatusCodes \ {"OK"}

Ok(v) == <<"Ok", v>>
Err(e) == <<"Err", e>>
IsOk(r) == r[1] = "Ok"
IsErr(r) == r[1] = "Err"
Unit == <<>>

\* A status the native library wrote.
NativeStatus(code) == <<code, "native">>

\* CString::new(s): fails on an embedded NUL byte.
HasNul(s) == \E i \in 1..Len(s) : s[i] = 0

\* `CString::new(s)?`: the NulError becomes this layer's error.
NulStatus == <<"INVALID_ARGUMENT", "nul">>

\* status.into_result(): Ok(()) for an OK status, else Err(status).
IntoResult(code) == IF code = "OK" THEN Ok(Unit) ELSE Err(NativeStatus(code))

\* A Context is the set of op names its registry knows.
Contexts == {{StrAdd}, {}}

(***************************************************************************)
(* Tensors and handles.                                                    *)
(***************************************************************************)
DataTypes == {"Int32", "Float"}

\* DataType::to_c(): the native numeric type tag.
ToC(dt) == CASE dt = "Float" -> 1 [] dt = "Int32" -> 3

TensorDims == {<<2, 2>>, <<4>>}
TensorData == {<<1, 2, 3, 4>>, <<4, 3, 2, 1>>, <<0, 0, 0, 0>>}
Tensors == {[dtype |-> "Int32", dims |-> d, vals |-> v] : d \in TensorDims, v \in TensorData}

Handle(p, t) == [ptr |-> p, tensor |-> t]
NullHandle == [ptr |-> "null", tensor |-> [dtype |-> "Int32", dims |-> <<>>, vals |-> <<>>]]

(***************************************************************************)
(* The native descriptor.                                                  *)
(***************************************************************************)
AttrNames == {StrT, StrN}
Unset == <<"unset">>
NoAttrs == [n \in AttrNames |-> Unset]
NullOp == [alive |-> FALSE, name |-> <<>>, inputs |-> <<>>, attrs |-> NoAttrs,
           device |-> <<>>]
FreshOp(name) == [alive |-> TRUE, name |-> name, inputs |-> <<>>, attrs |-> NoAttrs,
                  device |-> <<>>]

\* TFE_NewOp(ctx, name, status): a descriptor for a name the context knows,
\* else a null handle and a failed status.
TFE_NewOp(c, name) ==
    IF name \in c THEN [inner |-> FreshOp(name), status |-> "OK"]
    ELSE [inner |-> NullOp, status |-> "NOT_FOUND"]

\* An input slot of the native descriptor: `count` handles read from a buffer
\* whose contents are `buf`.
Slot(buf, count) == <<buf, count>>
Single(h) == Slot(<<h>>, 1)

\* TFE_OpAddInput(op, h, status): appends the input when the call succeeds.
TFE_OpAddInput(nat, h, st) ==
    IF st = "OK" THEN [nat EXCEPT !.inputs = Append(@, Single(h))] ELSE nat

\* TFE_OpAddInputList(op, inputs, num_inputs, status): appends the list as one
\* variadic slot when the call succeeds.
TFE_OpAddInputList(nat, buf, count, st) ==
    IF st = "OK" THEN [nat EXCEPT !.inputs = Append(@, Slot(buf, count))] ELSE nat

\* TFE_OpSetDevice(op, device_name, status)
TFE_OpSetDevice(nat, dev, st) ==
    IF st = "OK" THEN [nat EXCEPT !.device = dev] ELSE nat

\* Mutant: a name set again keeps its earlier value beside the new one.
TFE_OpSetAttr_Accumulate(nat, name, val) ==
    IF name \in AttrNames
    THEN [nat EXCEPT !.attrs[name] = IF @ = Unset THEN val ELSE <<"multi", @, val>>]
    ELSE nat

\* TFE_OpSetAttr*(op, name, value): each name holds one value, the last set.
TFE_OpSetAttr(nat, name, val) ==
    IF name \in AttrNames THEN [nat EXCEPT !.attrs[name] = val] ELSE nat

\* TFE_DeleteOp(op)
TFE_DeleteOp(nat) == NullOp

\* The Add kernel: elementwise sum of two equal-shaped tensors of one type.
SumVals(a, b) == [i \in 1..Len(a) |-> a[i] + b[i]]
AddKernel(a, b) == [dtype |-> a.dtype, dims |-> a.dims, vals |-> SumVals(a.vals, b.vals)]

\* The tensor behind the i-th input slot, a single handle.
InputTensor(nat, i) == nat.inputs[i][1][1].tensor

\* Whether TFE_Execute can succeed on the descriptor.
Executable(nat) ==
    /\ nat.alive
    /\ nat.name = StrAdd
    /\ Len(nat.inputs) = 2
    /\ \A i \in 1..2 : nat.inputs[i][2] = 1
    /\ InputTensor(nat, 1).dtype = InputTensor(nat, 2).dtype
    /\ InputTensor(nat, 1).dims = InputTensor(nat, 2).dims
    /\ nat.attrs[StrT] \in {Unset, <<"type", ToC(InputTensor(nat, 1).dtype)>>}

\* TFE_Execute(op, res, &num_output, status): res[0] on success.
TFE_Execute(nat, st) ==
    IF st = "OK"
    THEN Handle("out", AddKernel(InputTensor(nat, 1), InputTensor(nat, 2)))
    ELSE NullHandle

(***************************************************************************)
(* impl_drop!(Op, TFE_DeleteOp): dropping an Op deletes its native op.     *)
(***************************************************************************)
\* Mutant: Op without its Drop implementation.
DropOp_Leak(nat) == [nat |-> nat, deletes |-> 0]

\* Returns the native descriptor afterwards and the TFE_DeleteOp calls made.
DropOp(nat) == [nat |-> TFE_DeleteOp(nat), deletes |-> 1]

(***************************************************************************)
(* Op::new                                                                 *)
(***************************************************************************)
\* Mutant: the handle TFE_NewOp returns is not tested for null.
Op_new_NoNullCheck(c, name) ==
    IF HasNul(name)
    THEN [ret |-> Err(NulStatus), inner |-> NullOp, calls |-> <<>>]
    ELSE LET n == TFE_NewOp(c, name)
         IN [ret |-> Ok(Unit), inner |-> n.inner,
             calls |-> <<<<"TFE_NewOp", name, n.status>>>>]

\* Returns the Result and the native descriptor it owns on success.
Op_new(c, name) ==
    IF HasNul(name)
    THEN [ret |-> Err(NulStatus), inner |-> NullOp, calls |-> <<>>]
    ELSE LET n == TFE_NewOp(c, name)
         IN IF ~n.inner.alive
            THEN [ret |-> Err(NativeStatus(n.status)), inner |-> NullOp,
                  calls |-> <<<<"TFE_NewOp", name, n.status>>>>]
            ELSE [ret |-> Ok(Unit), inner |-> n.inner,
                  calls |-> <<<<"TFE_NewOp", name, n.status>>>>]

(***************************************************************************)
(* Mutators.  Each returns the Result, the native descriptor afterwards,   *)
(* the native calls it made, each as <<function, argument, status>> (the   *)
(* status is "OK" for a native function that reports none), and the status *)
(* the native call reported ("none" when no native call was made).         *)
(***************************************************************************)
Outcome(r, nat, calls, nst) == [ret |-> r, nat |-> nat, calls |-> calls, nst |-> nst]

Op_add_input(nat, h, st) ==
    Outcome(IntoResult(st), TFE_OpAddInput(nat, h, st), <<<<"TFE_OpAddInput", h.ptr, st>>>>, st)

Op_set_attr_type(nat, name, dt) ==
    IF HasNul(name) THEN Outcome(Err(NulStatus), nat, <<>>, "none")
    ELSE Outcome(Ok(Unit), TFE_OpSetAttr(nat, name, <<"type", ToC(dt)>>),
                 <<<<"TFE_OpSetAttrType", name, "OK">>>>, "OK")

(***************************************************************************)
(* Slices and their lengths.  A usize is <<q, r>>, standing for            *)
(* q * 2^31 + r with 0 <= r < 2^31, so that lengths of 2^31 and more can   *)
(* be written down.  A slice is the sequence `pat` repeated up to `len`    *)
(* elements; Slice(s) is the slice holding exactly s.                      *)
(***************************************************************************)
USize(n) == <<0, n>>
Slice(s) == [pat |-> s, len |-> USize(Len(s))]
Repeated(s, u) == [pat |-> s, len |-> u]

\* `n as c_int` / `n as i32` on a usize: the low 32 bits, read as two's
\* complement.
AsCInt(u) == IF u[1] % 2 = 0 THEN u[2] ELSE (u[2] - 2^30) - 2^30

\* iter().map(..).collect(): a Vec of the slice's length holding `mapped`.
Collect(mapped, sl) == [pat |-> mapped, len |-> sl.len]

\* What a native function receives for a list: the buffer and the count.
ListArg(kind, sl) == <<kind, sl.pat, AsCInt(sl.len)>>

(***************************************************************************)
(* Shapes.  A Shape is <<"None">> (unknown rank) or <<"Some", dims>>, dims *)
(* a slice of <<"None">> (unknown dimension) or <<"Some", n>>.             *)
(***************************************************************************)
NullPtr == <<"null">>

\* (*x).unwrap_or(-1)
UnwrapOrMinus1(d) == IF d[1] = "Some" THEN d[2] ELSE -1

\* dims.iter().map(|x| (*x).unwrap_or(-1)).collect()
CDims(dims) == Collect([i \in 1..Len(dims.pat) |-> UnwrapOrMinus1(dims.pat[i])], dims)

\* The dimension pointer and rank set_attr_shape hands to TFE_OpSetAttrShape.
EncodeShape(sh) ==
    IF sh[1] = "None"
    THEN [dims |-> NullPtr, rank |-> -1]
    ELSE LET c_dims == CDims(sh[2])
         IN [dims |-> <<"ptr", c_dims.pat>>, rank |-> AsCInt(c_dims.len)]

\* set_attr_shape_list: c_dims, ptrs and lens, element by element.
ShapeListPtr(sh) ==
    IF sh[1] = "None" THEN NullPtr ELSE <<"ptr", CDims(sh[2]).pat>>
ShapeListLen(sh) ==
    IF sh[1] = "None" THEN -1 ELSE AsCInt(sh[2].len)

(***************************************************************************)
(* The remaining mutators.                                                 *)
(***************************************************************************)
\* A setter whose native function reports no status.
SetAttrNoStatus(nat, fn, name, val) ==
    IF HasNul(name) THEN Outcome(Err(NulStatus), nat, <<>>, "none")
    ELSE Outcome(Ok(Unit), TFE_OpSetAttr(nat, name, val), <<<<fn, name, "OK">>>>, "OK")

\* Mutant: the status is dropped and Ok(()) returned.
SetAttrWithStatus_Swallow(nat, fn, name, val, st) ==
    IF HasNul(name) THEN Outcome(Err(NulStatus), nat, <<>>, "none")
    ELSE Outcome(Ok(Unit),
                 IF st = "OK" THEN TFE_OpSetAttr(nat, name, val) ELSE nat,
                 <<<<fn, name, st>>>>, st)

\* A setter whose native function writes a status.
SetAttrWithStatus(nat, fn, name, val, st) ==
    IF HasNul(name) THEN Outcome(Err(NulStatus), nat, <<>>, "none")
    ELSE Outcome(IntoResult(st),
                 IF st = "OK" THEN TFE_OpSetAttr(nat, name, val) ELSE nat,
                 <<<<fn, name, st>>>>, st)

Op_set_device(nat, dev, st) ==
    IF HasNul(dev) THEN Outcome(Err(NulStatus), nat, <<>>, "none")
    ELSE Outcome(IntoResult(st), TFE_OpSetDevice(nat, dev, st),
                 <<<<"TFE_OpSetDevice", dev, st>>>>, st)

Op_add_input_list(nat, hs, st) ==
    LET inputs == Collect([i \in 1..Len(hs.pat) |-> hs.pat[i].ptr], hs)
        count == AsCInt(inputs.len)
    IN Outcome(IntoResult(st), TFE_OpAddInputList(nat, hs.pat, count, st),
               <<<<"TFE_OpAddInputList", ListArg("handles", inputs), st>>>>, st)

Op_set_attr_string(nat, name, value) ==
    SetAttrNoStatus(nat, "TFE_OpSetAttrString", name, <<"string", value, USize(Len(value))>>)

Op_set_attr_string_list(nat, name, values) ==
    LET bytes == Collect(values.pat, values)
        ptrs == Collect(bytes.pat, bytes)
        lens == Collect([i \in 1..Len(bytes.pat) |-> USize(Len(bytes.pat[i]))], bytes)
    IN SetAttrNoStatus(nat, "TFE_OpSetAttrStringList", name,
                       <<"string_list", ptrs.pat, AsCInt(ptrs.len), lens.pat>>)

Op_set_attr_int(nat, name, value) ==
    SetAttrNoStatus(nat, "TFE_OpSetAttrInt", name, <<"int", value>>)

Op_set_attr_int_list(nat, name, value) ==
    SetAttrNoStatus(nat, "TFE_OpSetAttrIntList", name, ListArg("int_list", value))

Op_set_attr_float(nat, name, value) ==
    SetAttrNoStatus(nat, "TFE_OpSetAttrFloat", name, <<"float", value>>)

\* `*x as c_float`: c_float is f32.
AsCFloat(x) == x

Op_set_attr_float_list(nat, name, value) ==
    SetAttrNoStatus(nat, "TFE_OpSetAttrFloatList", name,
                    ListArg("float_list",
                            Collect([i \in 1..Len(value.pat) |-> AsCFloat(value.pat[i])], value)))

\* if value { 1 } else { 0 }
BoolToUChar(b) == IF b THEN 1 ELSE 0

Op_set_attr_bool(nat, name, value) ==
    SetAttrNoStatus(nat, "TFE_OpSetAttrBool", name, <<"bool", BoolToUChar(value)>>)

Op_set_attr_bool_list(nat, name, value) ==
    SetAttrNoStatus(nat, "TFE_OpSetAttrBoolList", name,
                    ListArg("bool_list",
                            Collect([i \in 1..Len(value.pat) |-> BoolToUChar(value.pat[i])], value)))

Op_set_attr_type_list(nat, name, value) ==
    SetAttrNoStatus(nat, "TFE_OpSetAttrTypeList", name,
                    ListArg("type_list",
                            Collect([i \in 1..Len(value.pat) |-> ToC(value.pat[i])], value)))

Op_set_attr_shape(nat, name, value, st) ==
    LET e == EncodeShape(value)
    IN SetAttrWithStatus(nat, "TFE_OpSetAttrShape", name, <<"shape", e.dims, e.rank>>, st)

Op_set_attr_shape_list(nat, name, value, st) ==
    LET ptrs == Collect([i \in 1..Len(value.pat) |-> ShapeListPtr(value.pat[i])], value)
        lens == Collect([i \in 1..Len(value.pat) |-> ShapeListLen(value.pat[i])], value)
    IN SetAttrWithStatus(nat, "TFE_OpSetAttrShapeList", name,
                         <<"shape_list", ptrs.pat, AsCInt(ptrs.len), lens.pat>>, st)

\* `value.inner()?` is evaluated before the native call is made.
Op_set_attr_any_tensor(nat, name, value, st) ==
    IF HasNul(name) THEN Outcome(Err(NulStatus), nat, <<>>, "none")
    ELSE IF ~value.innerOk THEN Outcome(Err(<<"INVALID_ARGUMENT", "inner">>), nat, <<>>, "none")
    ELSE Outcome(IntoResult(st),
                 IF st = "OK" THEN TFE_OpSetAttr(nat, name, <<"tensor", value.ptr>>) ELSE nat,
                 <<<<"TFE_OpSetAttrTensor", name, st>>>>, st)

(***************************************************************************)
(* Getters.  The native function returns a string pointer and writes a     *)
(* status; on failure the pointer may be null.                             *)
(***************************************************************************)
TFE_OpGetDevice(nat, st) ==
    IF st = "OK" THEN {<<"ptr", nat.device>>} ELSE {NullPtr, <<"ptr", nat.device>>}

TFE_OpGetName(nat, st) ==
    IF st = "OK" THEN {<<"ptr", nat.name>>} ELSE {NullPtr, <<"ptr", nat.name>>}

\* CStr::to_str() on strings whose bytes are ASCII or 0xF8..0xFF (bytes no
\* UTF-8 text holds).
ToStr(bytes) ==
    IF \E i \in 1..Len(bytes) : bytes[i] >= 128
    THEN Err(<<"INVALID_ARGUMENT", "utf8">>)
    ELSE Ok(bytes)

\* What CStr::from_ptr(null) may do: it reads through the pointer to find the
\* string's end.  The read may fault, or it may have been optimised away on
\* the path that never uses the string.
NullReadOutcomes == {"crash", "continue"}

\* let s = unsafe { let p = native(..); CStr::from_ptr(p) };
\* if status.is_ok() { return Ok(s.to_str()?); } Err(status)
GetString(fn, p, st, ub) ==
    [calls |-> <<<<fn, p, st>>>>,
     nst |-> st,
     ptrRead |-> TRUE,
     nullRead |-> p = NullPtr,
     crashed |-> p = NullPtr /\ ub = "crash",
     ret |-> IF p = NullPtr /\ ub = "crash" THEN <<"Crash">>
             ELSE IF st = "OK" THEN ToStr(p[2])
             ELSE Err(NativeStatus(st))]

Op_get_device(p, st, ub) == GetString("TFE_OpGetDevice", p, st, ub)
Op_get_name(p, st, ub) == GetString("TFE_OpGetName", p, st, ub)

(***************************************************************************)
(* raw_ops::Add                                                            *)
(***************************************************************************)
NoRet == <<"None">>

\* No method has been run yet on a descriptor held directly.
NoLast == [fn |-> "none", name |-> <<>>, arg |-> <<"none">>, ret |-> NoRet,
           calls |-> <<>>, nst |-> "none", ptrRead |-> FALSE, nullRead |-> FALSE,
           repeat |-> FALSE]
NoInput == <<"none">>

\* Add::default() / Add::new(): T is None.
Add_new == <<"None">>
\* Add::T(value): T is Some(value).
Add_T(dt) == <<"Some", dt>>

\* TensorHandle::from_tensor_handle(ctx, res[0]): wraps the native output.
FromTensorHandle(h) == h

\* Entering Add::call(self, ctx, x, y) with `self` as given.
EnterCall(c, t, tx, ty) ==
    /\ pc = "idle"
    /\ created < MaxCalls
    /\ tx.dims = ty.dims
    /\ pc' = "new"
    /\ ctx' = c
    /\ selfT' = t
    /\ hx' = Handle("x", tx)
    /\ hy' = Handle("y", ty)
    /\ trace' = <<>>
    /\ execStatus' = "unset"
    /\ res' = NullHandle
    /\ ret' = NoRet
    /\ last' = NoLast
    /\ UNCHANGED <<held, natOp, created, deleted, input>>

\* raw_ops::add(ctx, x, y): Add::new().call(ctx, x, y).
RawOpsAdd == \E c \in Contexts, tx \in Tensors, ty \in Tensors : EnterCall(c, Add_new, tx, ty)

\* Add::new().T(dt).call(ctx, x, y)
BuilderCall ==
    \E c \in Contexts, dt \in DataTypes, tx \in Tensors, ty \in Tensors :
        EnterCall(c, Add_T(dt), tx, ty)

\* `return r` (or `?`) while `op` is in scope: the result goes to the caller and
\* op is dropped.
ReturnDropping(r, nat) ==
    LET d == DropOp(nat)
    IN /\ ret' = r
       /\ natOp' = d.nat
       /\ deleted' = deleted + d.deletes
       /\ held' = FALSE
       /\ pc' = "done"

\* let mut op = Op::new(ctx, "Add")?;
CallOpNew ==
    /\ pc = "new"
    /\ LET r == Op_new(ctx, StrAdd)
       IN /\ trace' = r.calls
          /\ IF IsOk(r.ret)
             THEN /\ held' = TRUE
                  /\ natOp' = r.inner
                  /\ created' = created + 1
                  /\ pc' = "x"
                  /\ UNCHANGED ret
             ELSE /\ ret' = r.ret
                  /\ pc' = "done"
                  /\ UNCHANGED <<held, natOp, created>>
    /\ UNCHANGED <<ctx, selfT, hx, hy, deleted, execStatus, res, last, input>>

\* Mutant: the Result of add_input is dropped instead of propagated with `?`.
CallAddInput_NoQuestionMark(at, h, next) ==
    /\ pc = at
    /\ \E st \in StatusCodes :
          LET o == Op_add_input(natOp, h, st)
          IN /\ trace' = trace \o o.calls
             /\ natOp' = o.nat
             /\ pc' = next
    /\ UNCHANGED <<ctx, selfT, hx, hy, created, execStatus, res, last, input, ret, deleted, held>>

\* op.add_input(&h)?; then on to `next`.
CallAddInput(at, h, next) ==
    /\ pc = at
    /\ \E st \in StatusCodes :
          LET o == Op_add_input(natOp, h, st)
          IN /\ trace' = trace \o o.calls
             /\ IF IsOk(o.ret)
                THEN /\ natOp' = o.nat
                     /\ pc' = next
                     /\ UNCHANGED <<ret, deleted, held>>
                ELSE ReturnDropping(o.ret, o.nat)
    /\ UNCHANGED <<ctx, selfT, hx, hy, created, execStatus, res, last, input>>

CallAddX == CallAddInput("x", hx, "y")

\* Mutant: x is attached twice.
CallAddY_AddsX == CallAddInput("y", hx, "attr")

CallAddY == CallAddInput("y", hy, "attr")

\* if let Some(value) = &self.T { op.set_attr_type("T", *value)?; }
CallAttr ==
    /\ pc = "attr"
    /\ IF selfT[1] = "Some"
       THEN LET o == Op_set_attr_type(natOp, StrT, selfT[2])
            IN /\ trace' = trace \o o.calls
               /\ IF IsOk(o.ret)
                  THEN /\ natOp' = o.nat
                       /\ pc' = "exec"
                       /\ UNCHANGED <<ret, deleted, held>>
                  ELSE ReturnDropping(o.ret, o.nat)
       ELSE /\ pc' = "exec"
            /\ UNCHANGED <<trace, natOp, ret, deleted, held>>
    /\ UNCHANGED <<ctx, selfT, hx, hy, created, execStatus, res, last, input>>

\* Mutant: the status of TFE_Execute is not checked.
ExecuteResult_Unchecked(st, out) == Ok(FromTensorHandle(out))

\* if status.is_ok() { return Ok(from_tensor_handle(ctx, res[0])); } Err(status)
ExecuteResult(st, out) ==
    IF st = "OK" THEN Ok(FromTensorHandle(out)) ELSE Err(NativeStatus(st))

\* TFE_Execute, the status check, the return and the drop of op.
CallExecute ==
    /\ pc = "exec"
    /\ \E st \in StatusCodes :
          /\ st = "OK" => Executable(natOp)
          /\ LET out == TFE_Execute(natOp, st)
             IN /\ trace' = Append(trace, <<"TFE_Execute", "res", st>>)
                /\ execStatus' = st
                /\ res' = out
                /\ ReturnDropping(ExecuteResult(st, out), natOp)
    /\ UNCHANGED <<ctx, selfT, hx, hy, created, last, input>>

\* The caller takes the result.
CallReturn ==
    /\ pc = "done"
    /\ pc' = "idle"
    /\ ctx' = {}
    /\ selfT' = Add_new
    /\ hx' = NullHandle
    /\ hy' = NullHandle
    /\ trace' = <<>>
    /\ execStatus' = "unset"
    /\ res' = NullHandle
    /\ ret' = NoRet
    /\ UNCHANGED <<held, natOp, created, deleted, last, input>>

InitCall ==
    /\ pc = "idle"
    /\ ctx = {}
    /\ selfT = Add_new
    /\ hx = NullHandle
    /\ hy = NullHandle
    /\ held = FALSE
    /\ natOp = NullOp
    /\ created = 0
    /\ deleted = 0
    /\ trace = <<>>
    /\ execStatus = "unset"
    /\ res = NullHandle
    /\ ret = NoRet
    /\ last = NoLast
    /\ input = NoInput

NextCall ==
    \/ RawOpsAdd
    \/ BuilderCall
    \/ CallOpNew
    \/ CallAddX
    \/ CallAddY
    \/ CallAttr
    \/ CallExecute
    \/ CallReturn

SpecCall == InitCall /\ [][NextCall]_vars

\* A native call of a trace: <<function, argument, status>>.
Fn(e) == e[1]
Arg(e) == e[2]
St(e) == e[3]

(***************************************************************************)
(* A descriptor held directly: Op::new, any number of mutators and getters *)
(* in any order, then the drop at the end of its scope.                    *)
(***************************************************************************)
OpNames == {StrAdd, StrNope, StrNul}
NameArgs == {StrT, StrNul}
IntNameArgs == {StrT, StrN, StrNul}
DeviceArgs == {StrCpu, StrCpuNul}
StringArgs == {<<120, 0, 121>>}
IntArgs == {0, 7}
FloatArgs == {1}
HandleArgs == {Handle("x", CHOOSE t \in Tensors : t.vals = <<1, 2, 3, 4>> /\ t.dims = <<2, 2>>)}
TensorArgs == {[innerOk |-> TRUE, ptr |-> "t"], [innerOk |-> FALSE, ptr |-> "t"]}
None == <<"None">>
Some(v) == <<"Some", v>>
ShapeArgs == {None, Some(Slice(<<None, Some(2)>>))}
HandleListArgs == {Slice(<<hh>>) : hh \in HandleArgs}
StringListArgs == {Slice(<<<<120>>, <<>>>>)}
IntListArgs == {Slice(<<7, 0>>)}
FloatListArgs == {Slice(<<1, 0>>)}
BoolListArgs == {Slice(<<TRUE, FALSE>>)}
TypeListArgs == {Slice(<<"Int32", "Float">>)}
ShapeListArgs == {Slice(<<None, Some(Slice(<<Some(2)>>))>>)}

\* Whether this call repeats the one before it: same method, name and value.
Repeats(fn, name, arg) ==
    /\ last.fn = fn
    /\ last.name = name
    /\ last.arg = arg

callVars == <<ctx, selfT, hx, hy, trace, execStatus, res, ret>>

\* let op = Op::new(ctx, name)
OpNew ==
    /\ pc = "idle"
    /\ created < MaxCalls
    /\ \E c \in Contexts, name \in OpNames :
          LET r == Op_new(c, name)
          IN /\ last' = [NoLast EXCEPT !.fn = "new", !.name = name, !.arg = c,
                                       !.ret = r.ret, !.calls = r.calls,
                                       !.nst = IF r.calls = <<>> THEN "none"
                                               ELSE St(r.calls[1])]
             /\ IF IsOk(r.ret)
                THEN /\ held' = TRUE
                     /\ natOp' = r.inner
                     /\ created' = created + 1
                     /\ pc' = "op"
                ELSE UNCHANGED <<held, natOp, created, pc>>
    /\ UNCHANGED <<callVars, deleted, input>>

\* A mutator has run on the held descriptor with outcome o; the caller goes on
\* at `next`.
RanAt(next, fn, name, arg, o) ==
    /\ natOp' = o.nat
    /\ last' = [fn |-> fn, name |-> name, arg |-> arg, ret |-> o.ret, calls |-> o.calls,
                nst |-> o.nst, ptrRead |-> FALSE, nullRead |-> FALSE,
                repeat |-> Repeats(fn, name, arg)]
    /\ pc' = next
    /\ UNCHANGED <<held, created, deleted, callVars, input>>

Ran(fn, name, arg, o) == RanAt("op", fn, name, arg, o)

OpAddInput ==
    /\ pc = "op"
    /\ Len(natOp.inputs) < MaxInputs
    /\ \E h \in HandleArgs, st \in StatusCodes :
          Ran("add_input", <<>>, h, Op_add_input(natOp, h, st))

OpAddInputList ==
    /\ pc = "op"
    /\ Len(natOp.inputs) < MaxInputs
    /\ \E hs \in HandleListArgs, st \in StatusCodes :
          Ran("add_input_list", <<>>, hs, Op_add_input_list(natOp, hs, st))

OpSetDevice ==
    /\ pc = "op"
    /\ \E d \in DeviceArgs, st \in StatusCodes :
          Ran("set_device", d, d, Op_set_device(natOp, d, st))

OpSetAttrString ==
    /\ pc = "op"
    /\ \E n \in NameArgs, v \in StringArgs :
          Ran("set_attr_string", n, v, Op_set_attr_string(natOp, n, v))

OpSetAttrStringList ==
    /\ pc = "op"
    /\ \E n \in NameArgs, v \in StringListArgs :
          Ran("set_attr_string_list", n, v, Op_set_attr_string_list(natOp, n, v))

OpSetAttrInt ==
    /\ pc = "op"
    /\ \E n \in IntNameArgs, v \in IntArgs :
          Ran("set_attr_int", n, v, Op_set_attr_int(natOp, n, v))

OpSetAttrIntList ==
    /\ pc = "op"
    /\ \E n \in NameArgs, v \in IntListArgs :
          Ran("set_attr_int_list", n, v, Op_set_attr_int_list(natOp, n, v))

OpSetAttrFloat ==
    /\ pc = "op"
    /\ \E n \in NameArgs, v \in FloatArgs :
          Ran("set_attr_float", n, v, Op_set_attr_float(natOp, n, v))

OpSetAttrFloatList ==
    /\ pc = "op"
    /\ \E n \in NameArgs, v \in FloatListArgs :
          Ran("set_attr_float_list", n, v, Op_set_attr_float_list(natOp, n, v))

OpSetAttrBool ==
    /\ pc = "op"
    /\ \E n \in NameArgs, v \in BOOLEAN :
          Ran("set_attr_bool", n, v, Op_set_attr_bool(natOp, n, v))

OpSetAttrBoolList ==
    /\ pc = "op"
    /\ \E n \in NameArgs, v \in BoolListArgs :
          Ran("set_attr_bool_list", n, v, Op_set_attr_bool_list(natOp, n, v))

OpSetAttrType ==
    /\ pc = "op"
    /\ \E n \in NameArgs, v \in DataTypes :
          Ran("set_attr_type", n, v, Op_set_attr_type(natOp, n, v))

OpSetAttrTypeList ==
    /\ pc = "op"
    /\ \E n \in NameArgs, v \in TypeListArgs :
          Ran("set_attr_type_list", n, v, Op_set_attr_type_list(natOp, n, v))

OpSetAttrShape ==
    /\ pc = "op"
    /\ \E n \in NameArgs, v \in ShapeArgs, st \in StatusCodes :
          Ran("set_attr_shape", n, v, Op_set_attr_shape(natOp, n, v, st))

OpSetAttrShapeList ==
    /\ pc = "op"
    /\ \E n \in NameArgs, v \in ShapeListArgs, st \in StatusCodes :
          Ran("set_attr_shape_list", n, v, Op_set_attr_shape_list(natOp, n, v, st))

OpSetAttrAnyTensor ==
    /\ pc = "op"
    /\ \E n \in NameArgs, v \in TensorArgs, st \in StatusCodes :
          Ran("set_attr_any_tensor", n, v, Op_set_attr_any_tensor(natOp, n, v, st))

\* A getter has run on the held descriptor with outcome g.
Got(fn, g) ==
    /\ last' = [fn |-> fn, name |-> <<>>, arg |-> <<"none">>, ret |-> g.ret,
                calls |-> g.calls, nst |-> g.nst, ptrRead |-> g.ptrRead,
                nullRead |-> g.nullRead, repeat |-> FALSE]
    /\ pc' = IF g.crashed THEN "crashed" ELSE pc
    /\ UNCHANGED <<natOp, held, created, deleted, callVars, input>>

OpGetDevice ==
    /\ pc = "op"
    /\ \E st \in StatusCodes, ub \in NullReadOutcomes :
          \E p \in TFE_OpGetDevice(natOp, st) : Got("get_device", Op_get_device(p, st, ub))

OpGetName ==
    /\ pc = "op"
    /\ \E st \in StatusCodes, ub \in NullReadOutcomes :
          \E p \in TFE_OpGetName(natOp, st) : Got("get_name", Op_get_name(p, st, ub))

\* The descriptor's scope ends.
OpDrop ==
    /\ pc = "op"
    /\ LET d == DropOp(natOp)
       IN /\ natOp' = d.nat
          /\ deleted' = deleted + d.deletes
    /\ held' = FALSE
    /\ pc' = "idle"
    /\ last' = NoLast
    /\ UNCHANGED <<created, callVars, input>>

NextOp ==
    \/ OpNew
    \/ OpAddInput
    \/ OpAddInputList
    \/ OpSetDevice
    \/ OpGetDevice
    \/ OpGetName
    \/ OpSetAttrString
    \/ OpSetAttrStringList
    \/ OpSetAttrInt
    \/ OpSetAttrIntList
    \/ OpSetAttrFloat
    \/ OpSetAttrFloatList
    \/ OpSetAttrBool
    \/ OpSetAttrBoolList
    \/ OpSetAttrType
    \/ OpSetAttrTypeList
    \/ OpSetAttrShape
    \/ OpSetAttrShapeList
    \/ OpSetAttrAnyTensor
    \/ OpDrop

Init == InitCall
Next == NextCall \/ NextOp
Spec == Init /\ [][Next]_vars

(***************************************************************************)
(* Claims about Add::call, checked under SpecCall.                         *)
(***************************************************************************)
TraceHas(f) == \E i \in 1..Len(trace) : Fn(trace[i]) = f
IsPrefix(s, t) == Len(s) <= Len(t) /\ \A i \in 1..Len(s) : s[i] = t[i]

\* C2: every descriptor Op::new hands out is released by TFE_DeleteOp exactly
\* once, on every way out of Add::call (after execute, succeeded or failed, and
\* after an early return), never twice, never left behind; a failed Op::new
\* releases nothing.
C2_ReleasedExactlyOnce ==
    /\ deleted <= created
    /\ created - deleted = (IF held THEN 1 ELSE 0)
    /\ held <=> natOp.alive
    /\ pc \in {"x", "y", "attr", "exec"} => held
    /\ pc \in {"idle", "done"} => ~held /\ created = deleted

C2_Witness ==
    /\ pc = "done"
    /\ execStatus \in FailCodes
    /\ created = 1
    /\ deleted = 1

\* C5: the execute step returns Ok with a handle wrapping the native output if
\* and only if TFE_Execute reported success; on failure it returns that status
\* as the error and no handle.
C5_ExecuteResult ==
    (pc = "done" /\ execStatus # "unset") =>
        /\ IsOk(ret) <=> execStatus = "OK"
        /\ execStatus = "OK" => ret = Ok(res) /\ res # NullHandle
        /\ execStatus # "OK" => ret = Err(NativeStatus(execStatus))

C5_Witness ==
    /\ pc = "done"
    /\ execStatus = "NOT_FOUND"
    /\ ret = Err(NativeStatus("NOT_FOUND"))

\* The call came through raw_ops::add, ran TFE_Execute and it succeeded.
AddSucceeded == pc = "done" /\ selfT = Add_new /\ execStatus = "OK"

ElementwiseSum(out, a, b) ==
    /\ out.dims = a.dims
    /\ Len(out.vals) = Len(a.vals)
    /\ \A i \in 1..Len(a.vals) : out.vals[i] = a.vals[i] + b.vals[i]

\* C6 as stated: raw_ops::add on two equal-shaped integer tensors, with the
\* dtype attribute set explicitly, yields their elementwise sum.
C6_Original ==
    AddSucceeded =>
        /\ TraceHas("TFE_OpSetAttrType")
        /\ IsOk(ret)
        /\ ElementwiseSum(ret[2].tensor, hx.tensor, hy.tensor)

\* C6 amended: raw_ops::add on two equal-shaped integer tensors never sets the
\* dtype attribute (Add::new() leaves T at None) and, when the native execute
\* succeeds, yields a handle whose tensor has the inputs' shape and is their
\* elementwise sum.
C6_AddSum ==
    AddSucceeded =>
        /\ ~TraceHas("TFE_OpSetAttrType")
        /\ IsOk(ret)
        /\ ElementwiseSum(ret[2].tensor, hx.tensor, hy.tensor)

C6_Witness ==
    /\ AddSucceeded
    /\ hx.tensor = [dtype |-> "Int32", dims |-> <<2, 2>>, vals |-> <<1, 2, 3, 4>>]
    /\ hy.tensor = hx.tensor
    /\ IsOk(ret)
    /\ ret[2].tensor = [dtype |-> "Int32", dims |-> <<2, 2>>, vals |-> <<2, 4, 6, 8>>]

\* The native calls Add::call makes when nothing fails.
FullLifecycle ==
    <<"TFE_NewOp", "TFE_OpAddInput", "TFE_OpAddInput">>
    \o (IF selfT[1] = "Some" THEN <<"TFE_OpSetAttrType">> ELSE <<>>)
    \o <<"TFE_Execute">>

\* C9: in every run of Add::call the native calls follow created -> built ->
\* executed-or-dropped: x is attached before y, inputs and attributes before
\* execute, execute at most once, nothing after execute, and nothing at all
\* (so no execute) after a call that failed.
C9_Lifecycle ==
    /\ IsPrefix([i \in 1..Len(trace) |-> Fn(trace[i])], FullLifecycle)
    /\ Len(trace) >= 2 => Arg(trace[2]) = "x"
    /\ Len(trace) >= 3 => Arg(trace[3]) = "y"
    /\ \A i \in 1..Len(trace) : St(trace[i]) # "OK" => i = Len(trace)
    /\ \A i \in 1..Len(trace) : St(trace[i]) # "OK" => pc \in {"done", "idle"} /\ IsErr(ret)
    /\ TraceHas("TFE_Execute") => pc \in {"done", "idle"}

C9_Witness ==
    /\ pc = "done"
    /\ Len(trace) = 5
    /\ Fn(trace[4]) = "TFE_OpSetAttrType"
    /\ Fn(trace[5]) = "TFE_Execute"

(***************************************************************************)
(* Claims about a descriptor held directly, checked under Spec.            *)
(***************************************************************************)
\* C1: Op::new(ctx, name) succeeds, and yields a live descriptor of that name,
\* exactly when the name has no embedded NUL byte and the context knows it;
\* otherwise it returns an error and no descriptor: for an embedded NUL without
\* any native call, for a null handle from TFE_NewOp with the native status.
C1_NewOp ==
    last.fn = "new" =>
        /\ IsOk(last.ret) <=> (~HasNul(last.name) /\ last.name \in last.arg)
        /\ IsOk(last.ret) => held /\ natOp.alive /\ natOp.name = last.name /\ pc = "op"
        /\ IsErr(last.ret) => ~held /\ ~natOp.alive /\ pc = "idle" /\ created = deleted
        /\ HasNul(last.name) => last.ret = Err(NulStatus) /\ last.calls = <<>>
        /\ (~HasNul(last.name) /\ last.name \notin last.arg) =>
               /\ last.nst \in FailCodes
               /\ last.ret = Err(NativeStatus(last.nst))

C1_Witness ==
    /\ last.fn = "new"
    /\ last.name = StrNope
    /\ last.arg = {StrAdd}
    /\ IsErr(last.ret)
    /\ ~held

FallibleFns ==
    {"add_input", "add_input_list", "set_device", "set_attr_string",
     "set_attr_string_list", "set_attr_int", "set_attr_int_list", "set_attr_float",
     "set_attr_float_list", "set_attr_bool", "set_attr_bool_list", "set_attr_type",
     "set_attr_type_list", "set_attr_shape", "set_attr_shape_list",
     "set_attr_any_tensor"}
SetterFns == FallibleFns \ {"add_input", "add_input_list", "set_device"}

\* The native call reported failure, and the caller got that status as the error.
SurfacesNativeStatus(r, nst) ==
    /\ IsErr(r) <=> nst \in FailCodes
    /\ IsErr(r) => r = Err(NativeStatus(nst))

\* The execute step of Add::call has run.
Executed == pc = "done" /\ execStatus # "unset"
ExecuteCalls == {i \in 1..Len(trace) : Fn(trace[i]) = "TFE_Execute"}

\* C4 as stated: every fallible operation makes exactly one native call and
\* returns an error if and only if that call failed, with that status.
C4_Original ==
    /\ last.fn \in FallibleFns =>
           /\ Len(last.calls) = 1
           /\ SurfacesNativeStatus(last.ret, last.nst)
    /\ Executed =>
           /\ Cardinality(ExecuteCalls) = 1
           /\ SurfacesNativeStatus(ret, execStatus)

\* The arguments cannot be handed to the native layer: a name or device string
\* holds a NUL byte, or the tensor gives no native pointer.
MarshalFails(l) ==
    \/ HasNul(l.name)
    \/ l.fn = "set_attr_any_tensor" /\ ~l.arg.innerOk

\* C4 amended: a fallible operation whose arguments can be marshalled makes
\* exactly one native call and returns an error if and only if that call
\* failed, with that status; one whose name or device string holds a NUL byte
\* (or, for set_attr_any_tensor, whose tensor gives no native pointer) makes no
\* native call and returns the binding layer's own error.  Nothing is retried
\* and no failure becomes a success.
C4_Surfaces ==
    /\ last.fn \in FallibleFns =>
           IF MarshalFails(last)
           THEN /\ last.calls = <<>>
                /\ IsErr(last.ret)
                /\ last.ret[2][2] # "native"
           ELSE /\ Len(last.calls) = 1
                /\ St(last.calls[1]) = last.nst
                /\ SurfacesNativeStatus(last.ret, last.nst)
    /\ Executed =>
           /\ Cardinality(ExecuteCalls) = 1
           /\ SurfacesNativeStatus(ret, execStatus)

C4_Witness ==
    /\ last.fn = "set_attr_shape"
    /\ last.nst = "NOT_FOUND"
    /\ last.ret = Err(NativeStatus("NOT_FOUND"))
    /\ Len(last.calls) = 1

\* C7: an attribute setter called again with the same name and value, and
\* ending as the first call did, leaves the descriptor as the first call left
\* it: the name still maps to that one value and everything else is untouched
\* (so execute sees the same descriptor).  A setter without a native status
\* ends the same way every time.
C7_Idempotent ==
    [][(last'.repeat /\ last'.fn \in SetterFns) =>
          /\ last'.ret = last.ret => natOp' = natOp
          /\ (last'.fn \notin {"set_attr_shape", "set_attr_shape_list",
                               "set_attr_any_tensor"}) => last'.ret = last.ret]_vars

C7_Witness ==
    /\ last.repeat
    /\ last.fn = "set_attr_int"
    /\ last.name = StrT
    /\ IsOk(last.ret)
    /\ natOp.attrs[StrT] = <<"int", 7>>
    /\ natOp.attrs[StrN] = <<"int", 0>>

\* C10: get_device and get_name read the string pointer the native call
\* returned only when the status reports success; a failed call, which may
\* return a null pointer, yields an error without the pointer being read.
C10_Original ==
    last.fn \in {"get_device", "get_name"} =>
        /\ last.ptrRead => last.nst = "OK"
        /\ ~last.nullRead
        /\ pc # "crashed"

(***************************************************************************)
(* Marshalling runs: one shape- or list-taking method on a fresh           *)
(* descriptor, with the argument drawn at the start.                       *)
(***************************************************************************)
\* Sequences over S of length at most n.
SeqUpTo(S, n) == UNION {[1..k -> S] : k \in 0..n}

\* Lengths around the ends of the 32-bit range: 2^31 - 1, 2^31, 2^32, 2^32 + 1.
BigLens == {<<0, (2^30 - 1) + 2^30>>, <<1, 0>>, <<2, 0>>, <<2, 1>>}

\* The slices over S drawn: every short one, and long ones of one repeated
\* element.
SlicesOf(S) ==
    {Slice(q) : q \in SeqUpTo(S, MaxLen)}
    \cup {Repeated(<<e>>, u) : e \in S, u \in BigLens}

DimArgs == {None} \cup {Some(n) : n \in 0..MaxDim}
Shapes ==
    {None}
    \cup {Some(Slice(q)) : q \in SeqUpTo(DimArgs, MaxRank)}
    \cup {Some(Repeated(<<None>>, u)) : u \in BigLens}
ListShapes == {None, Some(Slice(<<>>)), Some(Slice(<<None, Some(MaxDim)>>))}

MarshalInput(fn, name, value) == [fn |-> fn, name |-> name, value |-> value]

MarshalInputs ==
    {MarshalInput("set_attr_shape", n, v) : n \in NameArgs, v \in Shapes}
    \cup {MarshalInput("set_attr_shape_list", n, v) : n \in NameArgs, v \in SlicesOf(ListShapes)}
    \cup {MarshalInput("add_input_list", <<>>, v) : v \in SlicesOf(HandleArgs)}
    \cup {MarshalInput("set_attr_string_list", n, v) : n \in NameArgs, v \in SlicesOf(StringArgs)}
    \cup {MarshalInput("set_attr_int_list", n, v) : n \in NameArgs, v \in SlicesOf(IntArgs)}
    \cup {MarshalInput("set_attr_float_list", n, v) : n \in NameArgs, v \in SlicesOf(FloatArgs)}
    \cup {MarshalInput("set_attr_bool_list", n, v) : n \in NameArgs, v \in SlicesOf(BOOLEAN)}
    \cup {MarshalInput("set_attr_type_list", n, v) : n \in NameArgs, v \in SlicesOf(DataTypes)}

\* A descriptor for "Add" has just been created; the argument is drawn.
InitMarshal ==
    /\ pc = "ready"
    /\ ctx = {StrAdd}
    /\ selfT = Add_new
    /\ hx = NullHandle
    /\ hy = NullHandle
    /\ held = TRUE
    /\ natOp = FreshOp(StrAdd)
    /\ created = 1
    /\ deleted = 0
    /\ trace = <<>>
    /\ execStatus = "unset"
    /\ res = NullHandle
    /\ ret = NoRet
    /\ last = NoLast
    /\ input \in MarshalInputs

Drawn(fn) == pc = "ready" /\ input.fn = fn

RunSetAttrShape ==
    /\ Drawn("set_attr_shape")
    /\ \E st \in StatusCodes :
          RanAt("ran", input.fn, input.name, input.value,
                Op_set_attr_shape(natOp, input.name, input.value, st))

RunSetAttrShapeList ==
    /\ Drawn("set_attr_shape_list")
    /\ \E st \in StatusCodes :
          RanAt("ran", input.fn, input.name, input.value,
                Op_set_attr_shape_list(natOp, input.name, input.value, st))

RunAddInputList ==
    /\ Drawn("add_input_list")
    /\ \E st \in StatusCodes :
          RanAt("ran", input.fn, input.name, input.value,
                Op_add_input_list(natOp, input.value, st))

RunSetAttrStringList ==
    /\ Drawn("set_attr_string_list")
    /\ RanAt("ran", input.fn, input.name, input.value,
             Op_set_attr_string_list(natOp, input.name, input.value))

RunSetAttrIntList ==
    /\ Drawn("set_attr_int_list")
    /\ RanAt("ran", input.fn, input.name, input.value,
             Op_set_attr_int_list(natOp, input.name, input.value))

RunSetAttrFloatList ==
    /\ Drawn("set_attr_float_list")
    /\ RanAt("ran", input.fn, input.name, input.value,
             Op_set_attr_float_list(natOp, input.name, input.value))

RunSetAttrBoolList ==
    /\ Drawn("set_attr_bool_list")
    /\ RanAt("ran", input.fn, input.name, input.value,
             Op_set_attr_bool_list(natOp, input.name, input.value))

RunSetAttrTypeList ==
    /\ Drawn("set_attr_type_list")
    /\ RanAt("ran", input.fn, input.name, input.value,
             Op_set_attr_type_list(natOp, input.name, input.value))

NextMarshal ==
    \/ RunSetAttrShape
    \/ RunSetAttrShapeList
    \/ RunAddInputList
    \/ RunSetAttrStringList
    \/ RunSetAttrIntList
    \/ RunSetAttrFloatList
    \/ RunSetAttrBoolList
    \/ RunSetAttrTypeList

SpecMarshal == InitMarshal /\ [][NextMarshal]_vars

(***************************************************************************)
(* Claims about marshalling, checked under SpecMarshal.                    *)
(***************************************************************************)
\* The native layer's reading of a dimension and of a shape: -1 is unknown.
DecodeDim(v) == IF v = -1 THEN None ELSE Some(v)
DecodeShape(dims, rank) ==
    IF rank = -1 THEN None
    ELSE Some([pat |-> [i \in 1..Len(dims[2]) |-> DecodeDim(dims[2][i])],
               len |-> USize(rank)])

\* (dims, rank) is the sentinel encoding of shape sh, and decodes to it.
EncodesShape(dims, rank, sh) ==
    /\ sh = None => rank = -1 /\ dims = NullPtr
    /\ sh # None =>
          /\ USize(rank) = sh[2].len
          /\ dims[1] = "ptr"
          /\ Len(dims[2]) = Len(sh[2].pat)
          /\ \A i \in 1..Len(sh[2].pat) :
                dims[2][i] = (IF sh[2].pat[i] = None THEN -1 ELSE sh[2].pat[i][2])
    /\ DecodeShape(dims, rank) = sh

\* The method drawn has run, succeeded, and stored its value under the name.
Stored(fn) == pc = "ran" /\ last.fn = fn /\ IsOk(last.ret)
StoredAttr == natOp.attrs[last.name]

\* C3: set_attr_shape and set_attr_shape_list pass a shape of unknown rank as
\* rank -1 with a null dimension pointer, and a shape of known rank with rank
\* equal to its number of dimensions, unknown dimensions as -1 and known ones
\* as themselves, so that decoding gives back the shape.
C3_Original ==
    /\ Stored("set_attr_shape") =>
           EncodesShape(StoredAttr[2], StoredAttr[3], input.value)
    /\ Stored("set_attr_shape_list") =>
           \A i \in 1..Len(input.value.pat) :
               EncodesShape(StoredAttr[2][i], StoredAttr[4][i], input.value.pat[i])

\* The buffer and count the native layer was given for the list drawn.
GivenBuf == IF last.fn = "add_input_list" THEN natOp.inputs[1][1] ELSE StoredAttr[2]
GivenCount == IF last.fn = "add_input_list" THEN natOp.inputs[1][2] ELSE StoredAttr[3]

\* The element the native layer must see for a supplied element.
Marshalled(fn, e) ==
    CASE fn = "set_attr_bool_list" -> BoolToUChar(e)
      [] fn = "set_attr_type_list" -> ToC(e)
      [] fn = "set_attr_shape_list" -> ShapeListPtr(e)
      [] OTHER -> e

\* C8: every list-taking operation hands the native layer the elements
\* supplied, in order, and a count equal to their number, whatever the length.
C8_Original ==
    (pc = "ran" /\ IsOk(last.ret) /\ last.fn # "set_attr_shape") =>
        /\ USize(GivenCount) = input.value.len
        /\ Len(GivenBuf) = Len(input.value.pat)
        /\ \A i \in 1..Len(GivenBuf) : GivenBuf[i] = Marshalled(last.fn, input.value.pat[i])

\* A length that fits the 32-bit count.
FitsCInt(u) == u[1] = 0

\* For lists and shapes shorter than 2^31 both encodings are as C3 and C8 say.
BelowOverflow ==
    /\ (Stored("set_attr_shape") /\ (input.value # None => FitsCInt(input.value[2].len)))
           => EncodesShape(StoredAttr[2], StoredAttr[3], input.value)
    /\ (pc = "ran" /\ IsOk(last.ret) /\ last.fn # "set_attr_shape"
           /\ FitsCInt(input.value.len)) =>
           /\ USize(GivenCount) = input.value.len
           /\ \A i \in 1..Len(GivenBuf) : GivenBuf[i] = Marshalled(last.fn, input.value.pat[i])
           /\ last.fn = "set_attr_shape_list" =>
                  \A i \in 1..Len(input.value.pat) :
                      EncodesShape(StoredAttr[2][i], StoredAttr[4][i], input.value.pat[i])

====
